---- MODULE Spec2Model ----
(***************************************************************************)
(* A model of src/src/index.ts (@tendermint/sig): wallet derivation, the   *)
(* canonical sign message, signTx / createSignature and the verifyTx /     *)
(* verifySignatures / verifySignature chain.                               *)
(*                                                                         *)
(* The external primitives are modelled by their interface.  Hashes are    *)
(* collision free and a signature is the term (digest, signing key): the   *)
(* usual symbolic ("perfect cryptography") reading of sha256 and of        *)
(* deterministic ECDSA.  secp256k1's verify throws on a signature or a     *)
(* public key it cannot parse, and returns a boolean otherwise.            *)
(*                                                                         *)
(* A call either returns a value or throws: Return(v) and Throw(e).        *)
(***************************************************************************)
EXTENDS Integers, Sequences, FiniteSets, TLC

VARIABLES
    tx,         \* the transaction the caller holds (Tx or StdTx)
    signMsg,    \* the StdSignMsg the caller holds (SpecSig)
    signature,  \* the StdSignature entry the caller holds (SpecSig)
    wallet,     \* the outcome of the last wallet derivation (SpecWallet)
    call        \* the last call of the library: its arguments and its outcome

vars == <<tx, signMsg, signature, wallet, call>>

\* ------------------------------------------------------------------ bounds

\* number of mnemonics (hence wallets and private keys) the callers use
NumKeys == 2

\* a transaction is signed at most this many times
MaxSigs == 2

\* ------------------------------------------------------------ call outcomes

Return(v) == [threw |-> FALSE, value |-> v]

Throw(e) == [threw |-> TRUE, value |-> e]

None == [op |-> "none"]

\* -------------------------------------------------------------- JSON values

JStr(s) == [t |-> "str", v |-> s]

JArr(elems) == [t |-> "arr", v |-> elems]

\* an object is its properties in insertion order: a sequence of <<key, value>>
JObj(props) == [t |-> "obj", v |-> props]

\* the UTF-8 bytes of the property names that occur
Utf8 ==
    [ account_number |-> <<97, 99, 99, 111, 117, 110, 116, 95, 110, 117, 109, 98, 101, 114>>,
      amount         |-> <<97, 109, 111, 117, 110, 116>>,
      chain_id       |-> <<99, 104, 97, 105, 110, 95, 105, 100>>,
      denom          |-> <<100, 101, 110, 111, 109>>,
      fee            |-> <<102, 101, 101>>,
      gas            |-> <<103, 97, 115>>,
      memo           |-> <<109, 101, 109, 111>>,
      msgs           |-> <<109, 115, 103, 115>>,
      sequence       |-> <<115, 101, 113, 117, 101, 110, 99, 101>>,
      signatures     |-> <<115, 105, 103, 110, 97, 116, 117, 114, 101, 115>>,
      type           |-> <<116, 121, 112, 101>>,
      value          |-> <<118, 97, 108, 117, 101>> ]

RECURSIVE BytesLess(_, _)
\* a < b, byte-wise lexicographic
BytesLess(a, b) ==
    IF b = <<>> THEN FALSE
    ELSE IF a = <<>> THEN TRUE
    ELSE IF Head(a) # Head(b) THEN Head(a) < Head(b)
    ELSE BytesLess(Tail(a), Tail(b))

KeyLess(j, k) == BytesLess(Utf8[j], Utf8[k])

RECURSIVE Insert(_, _)
\* a property put in its place in a list of properties sorted by key
Insert(prop, sorted) ==
    IF sorted = <<>> THEN <<prop>>
    ELSE IF KeyLess(prop[1], Head(sorted)[1]) THEN <<prop>> \o sorted
    ELSE <<Head(sorted)>> \o Insert(prop, Tail(sorted))

RECURSIVE SortKeys(_)
SortKeys(props) ==
    IF props = <<>> THEN <<>> ELSE Insert(Head(props), SortKeys(Tail(props)))

RECURSIVE toCanonicalJSONBytes(_)
RECURSIVE Members(_)
RECURSIVE Elements(_)

\* "key":value,"key":value of properties already sorted
Members(props) ==
    IF props = <<>> THEN <<>>
    ELSE <<"\"", Head(props)[1], "\"", ":">> \o toCanonicalJSONBytes(Head(props)[2])
         \o (IF Tail(props) = <<>> THEN <<>> ELSE <<",">> \o Members(Tail(props)))

\* value,value of array elements, in their order
Elements(elems) ==
    IF elems = <<>> THEN <<>>
    ELSE toCanonicalJSONBytes(Head(elems))
         \o (IF Tail(elems) = <<>> THEN <<>> ELSE <<",">> \o Elements(Tail(elems)))

\* the canonical JSON text of a value, as its sequence of tokens: keys sorted
\* at every level, arrays in order, no whitespace
toCanonicalJSONBytes(value) ==
    CASE value.t = "str" -> <<"\"", value.v, "\"">>
      [] value.t = "arr" -> <<"[">> \o Elements(value.v) \o <<"]">>
      [] value.t = "obj" -> <<"{">> \o Members(SortKeys(value.v)) \o <<"}">>

RECURSIVE stringify(_)
RECURSIVE RawMembers(_)
RECURSIVE RawElements(_)

RawMembers(props) ==
    IF props = <<>> THEN <<>>
    ELSE <<"\"", Head(props)[1], "\"", ":">> \o stringify(Head(props)[2])
         \o (IF Tail(props) = <<>> THEN <<>> ELSE <<",">> \o RawMembers(Tail(props)))

RawElements(elems) ==
    IF elems = <<>> THEN <<>>
    ELSE stringify(Head(elems))
         \o (IF Tail(elems) = <<>> THEN <<>> ELSE <<",">> \o RawElements(Tail(elems)))

\* JSON.stringify: the properties in insertion order
stringify(value) ==
    CASE value.t = "str" -> <<"\"", value.v, "\"">>
      [] value.t = "arr" -> <<"[">> \o RawElements(value.v) \o <<"]">>
      [] value.t = "obj" -> <<"{">> \o RawMembers(value.v) \o <<"}">>

bytesToBase64(bytes) == [base64 |-> bytes]

base64ToBytes(string) == string.base64

\* -------------------------------------------------------- external primitives

\* createHash('sha256').update(bytes).digest()
sha256(bytes) == [alg |-> "sha256", of |-> bytes]

\* createHash('ripemd160').update(bytes).digest()
ripemd160(bytes) == [alg |-> "ripemd160", of |-> bytes]

bech32ToWords(bytes) == [words |-> bytes]

bech32Encode(prefix, words) == [hrp |-> prefix, data |-> words.words]

\* the compressed point of a private key
secp256k1PublicKeyCreate(privateKey) == [form |-> "compressed", of |-> privateKey]

\* deterministic ECDSA: the 64-byte compact signature of a digest by a key
secp256k1Sign(hash, privateKey) ==
    [signature |-> [form |-> "compact", digest |-> hash, key |-> privateKey]]

\* throws on a signature or public key it cannot parse; otherwise tells whether
\* the signature is the one of this digest by the key of this public key
secp256k1Verify(hash, sig, publicKey) ==
    IF sig.form # "compact" THEN Throw("signature invalid")
    ELSE IF publicKey.form # "compressed" THEN Throw("public key invalid")
    ELSE Return(sig.digest = hash /\ secp256k1PublicKeyCreate(sig.key) = publicKey)

mnemonicToSeedSync(mnemonic) == [seed |-> mnemonic]

\* a BIP32 node: its seed, the path from the master, and whether it holds a
\* private key (a neutered node does not)
fromSeed(seed) == [seed |-> seed.seed, path |-> <<>>, private |-> TRUE]

neutered(node) == [node EXCEPT !.private = FALSE]

RECURSIVE derivePath(_, _)
\* masterKey.derivePath(path): a hardened step needs the private key
derivePath(node, path) ==
    IF path = <<>> THEN Return(node)
    ELSE IF Head(path).hardened /\ ~node.private
         THEN Throw("Missing private key for hardened child key")
    ELSE derivePath([node EXCEPT !.path = Append(node.path, Head(path))], Tail(path))

\* the value `undefined` where a private key is expected
Undefined == [seed |-> 0, path |-> <<>>]

\* the privateKey property of a node; a neutered node has none
privateKeyOf(node) ==
    IF node.private THEN [seed |-> node.seed, path |-> node.path] ELSE Undefined

\* ------------------------------------------------------------------ wallets

COSMOS_PREFIX == "cosmos"

Step(i, h) == [index |-> i, hardened |-> h]

\* m/44'/118'/0'/0/0
COSMOS_PATH == <<Step(44, TRUE), Step(118, TRUE), Step(0, TRUE), Step(0, FALSE), Step(0, FALSE)>>

createMasterKeyFromMnemonic(mnemonic) == fromSeed(mnemonicToSeedSync(mnemonic))

\* a derivation without the check of the private key
createKeyPairFromMasterKey_NoCheck(masterKey, path) ==
    LET node == derivePath(masterKey, path) IN
    IF node.threw THEN node
    ELSE LET privateKey == privateKeyOf(node.value) IN
         Return([privateKey |-> privateKey,
                 publicKey  |-> secp256k1PublicKeyCreate(privateKey)])

createKeyPairFromMasterKey(masterKey, path) ==
    LET node == derivePath(masterKey, path) IN
    IF node.threw THEN node
    ELSE LET privateKey == privateKeyOf(node.value) IN
         IF privateKey = Undefined THEN Throw("could not derive private key")
         ELSE Return([privateKey |-> privateKey,
                      publicKey  |-> secp256k1PublicKeyCreate(privateKey)])

createAddress(publicKey, prefix) ==
    LET hash1 == sha256(publicKey)
        hash2 == ripemd160(hash1)
        words == bech32ToWords(hash2)
    IN  bech32Encode(prefix, words)

createWalletFromMasterKey(masterKey, prefix, path) ==
    LET keyPair == createKeyPairFromMasterKey(masterKey, path) IN
    IF keyPair.threw THEN keyPair
    ELSE Return([address    |-> createAddress(keyPair.value.publicKey, prefix),
                 privateKey |-> keyPair.value.privateKey,
                 publicKey  |-> keyPair.value.publicKey])

createWalletFromMnemonic(mnemonic, prefix, path) ==
    createWalletFromMasterKey(createMasterKeyFromMnemonic(mnemonic), prefix, path)

\* ------------------------------------------------------------------ signing

\* a sign message without the sequence number
createSignMsg_NoSequence(t, meta) ==
    JObj(<< <<"account_number", meta.account_number>>,
            <<"chain_id",       meta.chain_id>>,
            <<"fee",            t.fee>>,
            <<"memo",           t.memo>>,
            <<"msgs",           t.msg>> >>)

\* a sign message that also takes the transaction's signature list in
createSignMsg_WithSignatures(t, meta) ==
    JObj(<< <<"account_number", meta.account_number>>,
            <<"chain_id",       meta.chain_id>>,
            <<"fee",            t.fee>>,
            <<"memo",           t.memo>>,
            <<"msgs",           t.msg>>,
            <<"sequence",       meta.sequence>>,
            <<"signatures",     JArr(IF "signatures" \in DOMAIN t
                                     THEN [i \in 1..Len(t.signatures) |-> JStr("signature")]
                                     ELSE <<>>)>> >>)

createSignMsg(t, meta) ==
    JObj(<< <<"account_number", meta.account_number>>,
            <<"chain_id",       meta.chain_id>>,
            <<"fee",            t.fee>>,
            <<"memo",           t.memo>>,
            <<"msgs",           t.msg>>,
            <<"sequence",       meta.sequence>> >>)

sign(bytes, privateKey) ==
    LET hash == sha256(bytes) IN secp256k1Sign(hash, privateKey).signature

\* a signature over JSON.stringify of the message
createSignatureBytes_Stringify(msg, privateKey) ==
    LET bytes == stringify(msg) IN sign(bytes, privateKey)

createSignatureBytes(msg, privateKey) ==
    LET bytes == toCanonicalJSONBytes(msg) IN sign(bytes, privateKey)

createSignature(msg, keyPair) ==
    LET signatureBytes == createSignatureBytes(msg, keyPair.privateKey) IN
    [ signature |-> bytesToBase64(signatureBytes),
      pub_key   |-> [type  |-> "tendermint/PubKeySecp256k1",
                     value |-> bytesToBase64(keyPair.publicKey)] ]

\* a signTx that starts a new list every time
signTx_Replace(t, meta, keyPair) ==
    LET msg == createSignMsg(t, meta)
        sig == createSignature(msg, keyPair)
    IN  [f \in (DOMAIN t) \cup {"signatures"} |-> IF f = "signatures" THEN <<sig>> ELSE t[f]]

\* { ...tx, signatures }: every own property of tx, `signatures` set or replaced
signTx(t, meta, keyPair) ==
    LET msg  == createSignMsg(t, meta)
        sig  == createSignature(msg, keyPair)
        sigs == IF "signatures" \in DOMAIN t THEN Append(t.signatures, sig) ELSE <<sig>>
    IN  [f \in (DOMAIN t) \cup {"signatures"} |-> IF f = "signatures" THEN sigs ELSE t[f]]

\* ---------------------------------------------------------------- verifying

verifySignatureBytes(msg, sig, publicKey) ==
    LET bytes == toCanonicalJSONBytes(msg)
        hash  == sha256(bytes)
    IN  secp256k1Verify(hash, sig, publicKey)

\* a verification that takes the entry's two fields for one another
verifySignature_Swapped(msg, sig) ==
    LET signatureBytes == base64ToBytes(sig.pub_key.value)
        publicKey      == base64ToBytes(sig.signature)
    IN  verifySignatureBytes(msg, signatureBytes, publicKey)

verifySignature(msg, sig) ==
    LET signatureBytes == base64ToBytes(sig.signature)
        publicKey      == base64ToBytes(sig.pub_key.value)
    IN  verifySignatureBytes(msg, signatureBytes, publicKey)

RECURSIVE every(_, _)
\* Array.prototype.every with verifySignature as the callback: stops at the first
\* false, and a throwing callback ends the whole call
every(msg, sigs) ==
    IF sigs = <<>> THEN Return(TRUE)
    ELSE LET first == verifySignature(msg, Head(sigs)) IN
         IF first.threw THEN first
         ELSE IF ~first.value THEN Return(FALSE)
         ELSE every(msg, Tail(sigs))

verifySignatures(msg, sigs) ==
    IF Len(sigs) > 0 THEN every(msg, sigs) ELSE Return(FALSE)

verifyTx(t, meta) ==
    LET msg == createSignMsg(t, meta) IN verifySignatures(msg, t.signatures)

\* ------------------------------------------------------- the callers' inputs

Mnemonics == 1..NumKeys

Wallets == {createWalletFromMnemonic(m, COSMOS_PREFIX, COSMOS_PATH).value : m \in Mnemonics}

KeyPairOf(w) == [privateKey |-> w.privateKey, publicKey |-> w.publicKey]

\* a key pair whose publicKey is the image of its privateKey
Matched(keyPair) == keyPair.publicKey = secp256k1PublicKeyCreate(keyPair.privateKey)

\* a caller's key pair put together wrongly: the private key of the first
\* wallet with the public key of the second
MixedKeyPair ==
    [privateKey |-> createWalletFromMnemonic(1, COSMOS_PREFIX, COSMOS_PATH).value.privateKey,
     publicKey  |-> createWalletFromMnemonic(2, COSMOS_PREFIX, COSMOS_PATH).value.publicKey]

KeyPairs == {KeyPairOf(w) : w \in Wallets} \cup {MixedKeyPair}

Meta(chain, account, seq) ==
    [chain_id |-> JStr(chain), account_number |-> JStr(account), sequence |-> JStr(seq)]

Meta0 == Meta("test-chain", "0", "0")

\* the metadata of the next transaction of the same account
Meta1 == Meta("test-chain", "0", "1")

\* the metadata the callers sign with
SignMetas == {Meta0, Meta1}

\* the metadata the callers verify with: the above, another chain and another
\* account
Metas == SignMetas \cup {Meta("other-chain", "0", "0"), Meta("test-chain", "1", "0")}

MsgSend(amount) ==
    JObj(<< <<"type", JStr("cosmos-sdk/MsgSend")>>,
            <<"value", JObj(<< <<"amount", JStr(amount)>>, <<"denom", JStr("stake")>> >>)>> >>)

Fee(gas) == JObj(<< <<"amount", JArr(<<>>)>>, <<"gas", JStr(gas)>> >>)

\* an unsigned transaction of two messages, with a sibling field
Tx0 ==
    [msg |-> JArr(<<MsgSend("1"), MsgSend("2")>>), fee |-> Fee("200000"), memo |-> JStr(""),
     type |-> JStr("cosmos-sdk/StdTx")]

\* a signature of 63 bytes, and an entry carrying it
ShortSignature == [form |-> "truncated", digest |-> sha256(<<>>), key |-> MixedKeyPair.privateKey]

ShortEntry ==
    [ signature |-> bytesToBase64(ShortSignature),
      pub_key   |-> [type  |-> "tendermint/PubKeySecp256k1",
                     value |-> bytesToBase64(MixedKeyPair.publicKey)] ]

\* the transactions a caller starts from: unsigned, with an empty signature
\* list, and with an entry received from elsewhere
InitialTxs ==
    { Tx0,
      [msg |-> Tx0.msg, fee |-> Tx0.fee, memo |-> Tx0.memo, signatures |-> <<>>],
      [msg |-> Tx0.msg, fee |-> Tx0.fee, memo |-> Tx0.memo, signatures |-> <<ShortEntry>>] }

Signatures(t) == IF "signatures" \in DOMAIN t THEN t.signatures ELSE <<>>

Reverse(s) == [i \in 1..Len(s) |-> s[Len(s) + 1 - i]]

\* the copies of a transaction with its fee, its memo, one message or the order
\* of its messages changed
Edits(t) ==
    { [t EXCEPT !.fee = Fee("1")],
      [t EXCEPT !.memo = JStr("hello")],
      [t EXCEPT !.msg = JArr(<<MsgSend("3")>> \o Tail(t.msg.v))],
      [t EXCEPT !.msg = JArr(Reverse(t.msg.v))] }

\* ------------------------------------------------------- sign/verify machine

Idle == <<>>

InitSign ==
    /\ tx \in InitialTxs
    /\ call = None
    /\ signMsg = Idle
    /\ signature = Idle
    /\ wallet = Idle

\* a signTx that pushes onto the argument's own list
SignTx_InPlace(meta, keyPair) ==
    /\ Len(Signatures(tx)) < MaxSigs
    /\ call' = [op |-> "signTx", tx |-> tx, txAfter |-> signTx(tx, meta, keyPair),
                meta |-> meta, keyPair |-> keyPair,
                ret |-> Return(signTx(tx, meta, keyPair))]
    /\ tx' = signTx(tx, meta, keyPair)
    /\ UNCHANGED <<signMsg, signature, wallet>>

\* tx = signTx(tx, meta, keyPair): the caller keeps the returned transaction.
\* call.txAfter is the argument object when the call returns; signTx builds new
\* objects and writes to none.
SignTx(meta, keyPair) ==
    /\ Len(Signatures(tx)) < MaxSigs
    /\ call' = [op |-> "signTx", tx |-> tx, txAfter |-> tx, meta |-> meta,
                keyPair |-> keyPair, ret |-> Return(signTx(tx, meta, keyPair))]
    /\ tx' = signTx(tx, meta, keyPair)
    /\ UNCHANGED <<signMsg, signature, wallet>>

\* verifyTx(t, meta) for the caller's signed transaction or an edited copy of it
VerifyTx(t, meta) ==
    /\ "signatures" \in DOMAIN t
    /\ call' = [op |-> "verifyTx", tx |-> t, txAfter |-> t, meta |-> meta,
                ret |-> verifyTx(t, meta)]
    /\ UNCHANGED <<tx, signMsg, signature, wallet>>

Next ==
    \/ \E meta \in SignMetas, keyPair \in KeyPairs : SignTx(meta, keyPair)
    \/ \E meta \in Metas : VerifyTx(tx, meta)
    \/ \E t \in Edits(tx), meta \in SignMetas : VerifyTx(t, meta)

Spec == InitSign /\ [][Next]_vars

\* ---------------------------------------------------- signature-level machine

Rotate(s) == IF s = <<>> THEN s ELSE Tail(s) \o <<Head(s)>>

\* the object with property `key` replaced by f(its value)
ReverseIn(obj, key) ==
    JObj([i \in 1..Len(obj.v) |->
            IF obj.v[i][1] = key
            THEN <<key, JObj(Reverse(obj.v[i][2].v))>>
            ELSE obj.v[i]])

\* the same sign message built with its properties inserted in another order:
\* the top level reversed or rotated, the fee reversed, each message reversed
Reorderings(m) ==
    { JObj(Reverse(m.v)),
      JObj(Rotate(m.v)),
      ReverseIn(m, "fee"),
      JObj([i \in 1..Len(m.v) |->
              IF m.v[i][1] = "msgs"
              THEN <<"msgs", JArr([j \in 1..Len(m.v[i][2].v) |->
                                     ReverseIn(JObj(Reverse(m.v[i][2].v[j].v)), "value")])>>
              ELSE m.v[i]]) }

PublicKeys == {k.publicKey : k \in KeyPairs}

PrivateKeys == {k.privateKey : k \in KeyPairs}

\* a public key of 32 bytes
ShortPublicKey == [form |-> "truncated", of |-> MixedKeyPair.privateKey]

\* the bytes a caller may put in place of an entry's signature: the signatures
\* of the sign messages at hand by the keys at hand, and a truncated one
SignatureBytes ==
    {createSignatureBytes(createSignMsg(Tx0, meta), k) : meta \in SignMetas, k \in PrivateKeys}
        \cup {ShortSignature}

InitSig ==
    /\ signMsg \in {createSignMsg(Tx0, meta) : meta \in SignMetas}
    /\ signature = Idle
    /\ call = None
    /\ tx = Idle
    /\ wallet = Idle

\* signature = createSignature(signMsg, keyPair)
CreateSignature(keyPair) ==
    /\ signature' = createSignature(signMsg, keyPair)
    /\ call' = [op |-> "createSignature", signMsg |-> signMsg, keyPair |-> keyPair,
                ret |-> Return(createSignature(signMsg, keyPair))]
    /\ UNCHANGED <<tx, signMsg, wallet>>

\* the caller rebuilds its sign message with the properties in another order
Reorder(m) ==
    /\ m # signMsg
    /\ signMsg' = m
    /\ call' = [op |-> "reorder", signMsg |-> signMsg]
    /\ UNCHANGED <<tx, signature, wallet>>

\* the entry's signature replaced by other bytes
TamperSignature(bytes) ==
    /\ signature # Idle
    /\ bytes # base64ToBytes(signature.signature)
    /\ signature' = [signature EXCEPT !.signature = bytesToBase64(bytes)]
    /\ call' = [op |-> "tamper", signMsg |-> signMsg]
    /\ UNCHANGED <<tx, signMsg, wallet>>

\* the entry's public key replaced by another
TamperPubKey(publicKey) ==
    /\ signature # Idle
    /\ publicKey # base64ToBytes(signature.pub_key.value)
    /\ signature' = [signature EXCEPT !.pub_key.value = bytesToBase64(publicKey)]
    /\ call' = [op |-> "tamper", signMsg |-> signMsg]
    /\ UNCHANGED <<tx, signMsg, wallet>>

\* verifySignature(signMsg, signature)
VerifySignature ==
    /\ signature # Idle
    /\ call' = [op |-> "verifySignature", signMsg |-> signMsg, signature |-> signature,
                ret |-> verifySignature(signMsg, signature)]
    /\ UNCHANGED <<tx, signMsg, signature, wallet>>

NextSig ==
    \/ \E keyPair \in KeyPairs : CreateSignature(keyPair)
    \/ \E m \in Reorderings(signMsg) : Reorder(m)
    \/ \E bytes \in SignatureBytes : TamperSignature(bytes)
    \/ \E publicKey \in PublicKeys \cup {ShortPublicKey} : TamperPubKey(publicKey)
    \/ VerifySignature

SpecSig == InitSig /\ [][NextSig]_vars

\* ------------------------------------------------------------ wallet machine

MasterKeys ==
    {createMasterKeyFromMnemonic(m) : m \in Mnemonics}
        \cup {neutered(createMasterKeyFromMnemonic(m)) : m \in Mnemonics}

\* m/44'/118'/0'/0/0, m/0/0, m/0' and m
Paths == {COSMOS_PATH, <<Step(0, FALSE), Step(0, FALSE)>>, <<Step(0, TRUE)>>, <<>>}

Prefixes == {COSMOS_PREFIX, "osmo"}

InitWallet ==
    /\ wallet = Idle
    /\ call = None
    /\ tx = Idle
    /\ signMsg = Idle
    /\ signature = Idle

CreateKeyPairFromMasterKey(masterKey, path) ==
    /\ call' = [op |-> "createKeyPairFromMasterKey", masterKey |-> masterKey,
                prefix |-> COSMOS_PREFIX, path |-> path,
                ret |-> createKeyPairFromMasterKey(masterKey, path)]
    /\ UNCHANGED <<tx, signMsg, signature, wallet>>

\* wallet = createWalletFromMasterKey(...): nothing is assigned when it throws
CreateWalletFromMasterKey(masterKey, prefix, path) ==
    LET ret == createWalletFromMasterKey(masterKey, prefix, path) IN
    /\ call' = [op |-> "createWalletFromMasterKey", masterKey |-> masterKey,
                prefix |-> prefix, path |-> path, ret |-> ret]
    /\ wallet' = IF ret.threw THEN wallet ELSE ret.value
    /\ UNCHANGED <<tx, signMsg, signature>>

CreateWalletFromMnemonic(mnemonic, prefix, path) ==
    LET ret == createWalletFromMnemonic(mnemonic, prefix, path) IN
    /\ call' = [op |-> "createWalletFromMnemonic",
                masterKey |-> createMasterKeyFromMnemonic(mnemonic),
                prefix |-> prefix, path |-> path, ret |-> ret]
    /\ wallet' = IF ret.threw THEN wallet ELSE ret.value
    /\ UNCHANGED <<tx, signMsg, signature>>

NextWallet ==
    \/ \E masterKey \in MasterKeys, path \in Paths : CreateKeyPairFromMasterKey(masterKey, path)
    \/ \E masterKey \in MasterKeys, prefix \in Prefixes, path \in Paths :
           CreateWalletFromMasterKey(masterKey, prefix, path)
    \/ \E mnemonic \in Mnemonics, prefix \in Prefixes, path \in Paths :
           CreateWalletFromMnemonic(mnemonic, prefix, path)

SpecWallet == InitWallet /\ [][NextWallet]_vars

\* ------------------------------------------------- claims on sign and verify

\* the transaction without its signatures field
Unsign(t) == [f \in (DOMAIN t) \ {"signatures"} |-> t[f]]

\* entry i of the list verifies against the sign message of (t, meta)
EntryVerifies(t, meta, i) ==
    verifySignature(createSignMsg(t, meta), t.signatures[i]) = Return(TRUE)

AllVerify(t, meta) == \A i \in 1..Len(Signatures(t)) : EntryVerifies(t, meta, i)

\* every entry of the list is one secp256k1 can parse
WellFormed(t) ==
    \A i \in 1..Len(Signatures(t)) :
        /\ base64ToBytes(t.signatures[i].signature).form = "compact"
        /\ base64ToBytes(t.signatures[i].pub_key.value).form = "compressed"

\* C1 as stated: for every transaction signTx accepts, unsigned or already
\* signed, and every matched key pair, verifyTx(signTx(T, Meta, K), Meta) is
\* true.  (Stated here for the transactions whose entries are all well formed.)
C1_RoundTripAnyTx ==
    (call.op = "signTx" /\ Matched(call.keyPair) /\ WellFormed(call.tx))
        => verifyTx(call.ret.value, call.meta) = Return(TRUE)

\* C1 amended: the round trip holds when T is unsigned or every signature T
\* already carries verifies against the sign message of T and Meta.
C1_RoundTrip ==
    (call.op = "signTx" /\ Matched(call.keyPair) /\ AllVerify(call.tx, call.meta))
        => verifyTx(call.ret.value, call.meta) = Return(TRUE)

C1_Witness ==
    /\ call.op = "signTx"
    /\ Matched(call.keyPair)
    /\ Len(Signatures(call.tx)) >= 1
    /\ AllVerify(call.tx, call.meta)
    /\ verifyTx(tx, call.meta) = Return(TRUE)

\* C2: every signTx lengthens `signatures` by exactly one, puts the new entry
\* last and leaves the earlier entries at their indices; a transaction without
\* the field gets a list of one entry; nothing is replaced or deduplicated.
C2_Append ==
    call.op = "signTx" =>
        LET old == Signatures(call.tx)
            new == call.ret.value.signatures
        IN  /\ Len(new) = Len(old) + 1
            /\ \A i \in 1..Len(old) : new[i] = old[i]
            /\ new[Len(new)] = createSignature(createSignMsg(call.tx, call.meta), call.keyPair)
            /\ ("signatures" \notin DOMAIN call.tx => Len(new) = 1)
            /\ tx = call.ret.value

\* signed twice with the same key pair and metadata: two equal entries
C2_Witness ==
    /\ call.op = "signTx"
    /\ Len(tx.signatures) = 2
    /\ tx.signatures[1] = tx.signatures[2]
    /\ Signatures(call.tx) = <<tx.signatures[1]>>

\* C3 as stated: verifyTx is true exactly when the list is non-empty and every
\* entry verifies; an empty list gives false, and so does any list with an
\* entry that does not verify.
C3_VerifyTxIff ==
    call.op = "verifyTx" =>
        LET n == Len(call.tx.signatures) IN
        /\ (call.ret = Return(TRUE)) <=> (n > 0 /\ AllVerify(call.tx, call.meta))
        /\ n = 0 => call.ret = Return(FALSE)
        /\ (\E i \in 1..n : ~EntryVerifies(call.tx, call.meta, i)) => call.ret = Return(FALSE)

\* C4 as stated: verifyTx completes with a boolean, whatever the entries hold,
\* and never throws.
C4_VerifyTxNeverThrows ==
    call.op = "verifyTx" => (~call.ret.threw /\ call.ret.value \in BOOLEAN)

\* C5: signTx returns the input's non-signature fields unchanged and leaves
\* the input transaction, its signature list included, as it was.
C5_ImmutableUpdate ==
    call.op = "signTx" =>
        /\ call.txAfter = call.tx
        /\ DOMAIN call.ret.value = (DOMAIN call.tx) \cup {"signatures"}
        /\ \A f \in (DOMAIN call.tx) \ {"signatures"} : call.ret.value[f] = call.tx[f]

\* an already signed transaction with a sibling field, signed again
C5_Witness ==
    /\ call.op = "signTx"
    /\ Len(Signatures(call.tx)) = 1
    /\ "type" \in DOMAIN call.tx
    /\ tx.type = call.tx.type
    /\ call.txAfter.signatures = <<tx.signatures[1]>>

\* the content of the sign message differs
Changed(a, b) == a.fee # b.fee \/ a.memo # b.memo \/ a.msg # b.msg

\* C7: for S = signTx(T, M, K) with T unsigned, verifyTx(S, M') is false for
\* every M' that differs from M, and verifyTx under M is false once the fee,
\* the memo or the messages (or only their order) of S are changed.
C7_BoundToSignMsg ==
    call.op = "verifyTx" =>
        \A M \in SignMetas, K \in KeyPairs :
            tx = signTx(Unsign(tx), M, K) =>
                /\ (call.tx = tx /\ call.meta # M) => call.ret = Return(FALSE)
                /\ (Unsign(call.tx) # Unsign(tx) /\ Changed(call.tx, tx) /\ call.meta = M)
                       => call.ret = Return(FALSE)

\* the messages of a validly signed transaction swapped, verified under the
\* signing metadata
C7_Witness ==
    /\ call.op = "verifyTx"
    /\ \E M \in SignMetas, K \in KeyPairs :
           /\ Matched(K)
           /\ tx = signTx(Unsign(tx), M, K)
           /\ call.meta = M
           /\ verifyTx(tx, M) = Return(TRUE)
    /\ call.tx.msg = JArr(Reverse(tx.msg.v))
    /\ call.tx.msg # tx.msg
    /\ call.ret = Return(FALSE)

\* C10: the sign message depends on neither the existing signatures nor the
\* sibling fields, so for an unsigned T, signing with A then B and with B then
\* A gives the same two entries in opposite order, each the entry of signing T
\* alone, and both results verify under M (A and B matched).
C10_CosignOrder ==
    (call.op = "signTx" /\ Len(Signatures(call.tx)) = 1) =>
        \A A \in KeyPairs :
            LET T  == Unsign(call.tx)
                M  == call.meta
                B  == call.keyPair
                AB == call.ret.value
                BA == signTx(signTx(T, M, B), M, A)
                a  == signTx(T, M, A).signatures[1]
                b  == signTx(T, M, B).signatures[1]
            IN  call.tx = signTx(T, M, A) =>
                    /\ createSignMsg(AB, M) = createSignMsg([f \in {"msg", "fee", "memo"} |-> T[f]], M)
                    /\ AB.signatures = <<a, b>>
                    /\ BA.signatures = <<b, a>>
                    /\ (Matched(A) /\ Matched(B)) =>
                           (verifyTx(AB, M) = Return(TRUE) /\ verifyTx(BA, M) = Return(TRUE))

\* two different matched key pairs have co-signed an unsigned transaction
C10_Witness ==
    /\ call.op = "signTx"
    /\ Len(Signatures(call.tx)) = 1
    /\ Matched(call.keyPair)
    /\ \E A \in KeyPairs :
           /\ Matched(A)
           /\ A # call.keyPair
           /\ call.tx = signTx(Unsign(call.tx), call.meta, A)
    /\ tx.signatures[1] # tx.signatures[2]
    /\ verifyTx(tx, call.meta) = Return(TRUE)

\* ------------------------------------------------- claims on single entries

\* C6 as stated: for an entry E = createSignature(signMsg, K) with K matched,
\* E with its signature replaced by any different bytes, or with its public key
\* replaced by that of a different key pair, makes verifySignature return false.
C6_TamperDetected ==
    call.op = "verifySignature" =>
        \A K \in KeyPairs :
            Matched(K) =>
                LET E == createSignature(call.signMsg, K) IN
                /\ (call.signature.pub_key = E.pub_key /\ call.signature.signature # E.signature)
                       => call.ret = Return(FALSE)
                /\ (/\ call.signature.signature = E.signature
                    /\ call.signature.pub_key.value # E.pub_key.value
                    /\ base64ToBytes(call.signature.pub_key.value) \in PublicKeys)
                       => call.ret = Return(FALSE)

\* the sign message with its array of messages reversed
SwapMsgs(m) ==
    JObj([i \in 1..Len(m.v) |->
            IF m.v[i][1] = "msgs" THEN <<"msgs", JArr(Reverse(m.v[i][2].v))>> ELSE m.v[i]])

\* C9: two sign messages that differ only in the insertion order of their
\* properties, at any level, have the same canonical bytes, while the order of
\* array elements stays in the bytes; so a signature made over one by
\* createSignatureBytes verifies over the other with verifySignatureBytes, and
\* an entry made over a message verifies whatever order the message is held in.
C9_Canonical ==
    /\ call.op = "reorder" =>
           /\ toCanonicalJSONBytes(signMsg) = toCanonicalJSONBytes(call.signMsg)
           /\ toCanonicalJSONBytes(SwapMsgs(signMsg)) # toCanonicalJSONBytes(signMsg)
           /\ \A K \in KeyPairs :
                  Matched(K) =>
                      /\ verifySignatureBytes(signMsg,
                             createSignatureBytes(call.signMsg, K.privateKey), K.publicKey)
                           = Return(TRUE)
                      /\ verifySignatureBytes(call.signMsg,
                             createSignatureBytes(signMsg, K.privateKey), K.publicKey)
                           = Return(TRUE)
    /\ call.op = "verifySignature" =>
           \A K \in KeyPairs :
               (Matched(K) /\ call.signature = createSignature(call.signMsg, K))
                   => call.ret = Return(TRUE)

\* an entry made over a message verifies over a reordering of it, at the top
\* level and below, that is not in sorted order
C9_Witness ==
    /\ call.op = "reorder"
    /\ signature # Idle
    /\ stringify(signMsg) # toCanonicalJSONBytes(signMsg)
    /\ stringify(call.signMsg) # toCanonicalJSONBytes(call.signMsg)
    /\ stringify(signMsg) # stringify(call.signMsg)
    /\ \E K \in KeyPairs : Matched(K) /\ signature = createSignature(call.signMsg, K)
    /\ verifySignature(signMsg, signature) = Return(TRUE)

\* ------------------------------------------------------- claims on wallets

FullWallet(w, prefix) ==
    /\ DOMAIN w = {"address", "privateKey", "publicKey"}
    /\ w.privateKey # Undefined
    /\ w.publicKey = secp256k1PublicKeyCreate(w.privateKey)
    /\ w.address = createAddress(w.publicKey, prefix)

\* C8: createKeyPairFromMasterKey throws exactly when the path yields no
\* private key (the master key is public-only), the two wallet constructors
\* then throw as well and return nothing, and every wallet returned is the full
\* triple with publicKey the image of privateKey and address that of publicKey.
C8_AllOrNothing ==
    /\ call.op = "createKeyPairFromMasterKey" =>
           /\ call.ret.threw <=> ~call.masterKey.private
           /\ ~call.ret.threw =>
                  /\ call.ret.value.privateKey # Undefined
                  /\ call.ret.value.publicKey
                       = secp256k1PublicKeyCreate(call.ret.value.privateKey)
    /\ call.op \in {"createWalletFromMasterKey", "createWalletFromMnemonic"} =>
           /\ call.ret.threw <=> ~call.masterKey.private
           /\ call.ret.threw <=> createKeyPairFromMasterKey(call.masterKey, call.path).threw
           /\ ~call.ret.threw => (FullWallet(call.ret.value, call.prefix) /\ wallet = call.ret.value)
    /\ wallet # Idle => \E prefix \in Prefixes : FullWallet(wallet, prefix)

\* after a wallet was made, a public-only master key and a path without
\* hardened steps: the derivation finds no private key and the call throws
C8_Witness ==
    /\ call.op = "createWalletFromMasterKey"
    /\ ~call.masterKey.private
    /\ \A i \in 1..Len(call.path) : ~call.path[i].hardened
    /\ call.ret = Throw("could not derive private key")
    /\ wallet # Idle
    /\ FullWallet(wallet, COSMOS_PREFIX)

====
